---- MODULE Spec2Model ----
(***************************************************************************)
(* Closure-table maintenance of closuretree/models.py (ClosureModel).      *)
(*                                                                         *)
(* State: the node table (pk, parent_id, level), the <Model>Closure table  *)
(* (id, parent_id, child_id, depth; unique on (parent_id, child_id)), and  *)
(* one in-memory model instance per node (its parent attribute and the     *)
(* _closure_old_parent attribute of the change detection).  Every          *)
(* statement is committed when it is executed (the module opens no         *)
(* transaction).                                                           *)
(***************************************************************************)
EXTENDS Integers, FiniteSets, Sequences, TLC

\* ---------------------------------------------------------------- bounds
MaxNodes == 3      \* pks handed out by the node table: 1..MaxNodes
MaxLevel == 2      \* cap on the level column

\* ------------------------------------------------------------- constants
NoneP == 0         \* Python None / SQL NULL in a parent reference
Unset == -1        \* the instance has no _closure_old_parent attribute

Pks == 1..MaxNodes
\* connection.vendor as drawn here: one vendor of the insert-ignore branches
\* (mysql and postgresql take the same path as sqlite) and one of the else branch
Vendors == {"sqlite", "oracle"}
Policies == {"CASCADE", "DO_NOTHING"}

VARIABLES
    pks,          \* pks of the rows of the node table
    parent_id,    \* node table: parent_id column (NoneP = NULL)
    level,        \* node table: level column
    closure,      \* closure table: set of rows
    nextPk,       \* auto-increment counter of the node table
    nextRowId,    \* auto-increment counter of the closure table
    inst,         \* the model instance the caller holds in memory
    vendor,       \* connection.vendor
    raised,       \* exception the last operation surfaced ("none" = none)
    last          \* the last operation and the pk it acted on

vars == <<pks, parent_id, level, closure, nextPk, nextRowId, inst, vendor,
          raised, last>>

\* no instance in memory
NoInst == [pk |-> NoneP, parent_id |-> NoneP, old_parent |-> Unset, live |-> FALSE]

\* an instance: pk (NoneP before the first save), the parent_id attribute,
\* and the _closure_old_parent attribute (Unset = absent)
Instance(k, p, o) == [pk |-> k, parent_id |-> p, old_parent |-> o, live |-> TRUE]

\* ------------------------------------------------------------ closure rows
Row(i, p, c, d) == [id |-> i, parent_id |-> p, child_id |-> c, depth |-> d]

\* a row without its own id: what the INSERT ... SELECT computes
Triple(p, c, d) == [parent_id |-> p, child_id |-> c, depth |-> d]

TripleOf(r) == Triple(r.parent_id, r.child_id, r.depth)

Triples(tbl) == {TripleOf(r) : r \in tbl}

\* unique_together = (("parent", "child"),)
KeyTaken(tbl, t) ==
    \E r \in tbl : r.parent_id = t.parent_id /\ r.child_id = t.child_id

\* The id column of the closure table is an auto-increment key.  The code
\* reads it in one place only (is_descendant_of compares it with a node pk),
\* so ids above every node pk are recorded as the one value OtherId.
OtherId == MaxNodes + 1

RowId(i) == IF i > MaxNodes THEN OtherId ELSE i

\* the orders in which the table can number the rows of one INSERT statement
Numberings(ts) ==
    {f \in [ts -> 1..Cardinality(ts)] :
        \A s, t \in ts : s # t => f[s] # f[t]}

\* the rows of one INSERT statement, numbered from the counter value first
Numbered(ts, f, first) ==
    {Row(RowId(first + f[t] - 1), t.parent_id, t.child_id, t.depth) : t \in ts}

\* ------------------------------------------------------ ClosureModel parts
\* _closure_parent_pk: the parent pk held by the instance
closure_parent_pk(i) == i.parent_id

\* is_root_node
is_root_node(i) == closure_parent_pk(i) = NoneP

\* _closure_parent without the except clause: the reference as it is held
closure_parent_unresolved(ps, i) == i.parent_id

\* _closure_parent: the parent object, None when it does not exist
closure_parent(ps, i) == IF i.parent_id \in ps THEN i.parent_id ELSE NoneP

\* _closure_change_check
closure_change_check(i) == i.old_parent # Unset

\* _closure_change_init
closure_change_init(ps, i) == [i EXCEPT !.old_parent = closure_parent(ps, i)]

\* _closure_deletelink filtering on either end of the row
closure_deletelink_bothends(tbl, n) ==
    {r \in tbl : r.child_id # n /\ r.parent_id # n}

\* _closure_deletelink: the table without the rows whose child is n
closure_deletelink(tbl, n) == {r \in tbl : r.child_id # n}

\* the SELECT ... UNION SELECT ... of _closure_createlink
createlink_selects(tbl, pk, par) ==
    {Triple(pk, pk, 0)} \cup
    (IF par # NoneP
       THEN {Triple(r.parent_id, pk, r.depth + 1) :
                r \in {x \in tbl : x.child_id = par}}
       ELSE {})

\* the insert operator chosen from connection.vendor
InsertIgnores(v) == v \in {"sqlite", "mysql", "postgresql"}

\* rows the statement tries to insert that hit the unique key
createlink_conflicts(tbl, pk, par) ==
    {t \in createlink_selects(tbl, pk, par) : KeyTaken(tbl, t)}

\* _closure_createlink raises (plain INSERT and a duplicate key)
createlink_raises(v, tbl, pk, par) ==
    ~InsertIgnores(v) /\ createlink_conflicts(tbl, pk, par) # {}

\* rows _closure_createlink adds (before they are numbered)
createlink_added(v, tbl, pk, par) ==
    IF createlink_raises(v, tbl, pk, par)
      THEN {}
      ELSE createlink_selects(tbl, pk, par) \ createlink_conflicts(tbl, pk, par)

\* ---------------------------------------------------------------- the tree
RECURSIVE Chain(_, _, _, _)
\* the nodes reached from n by following parent pointers k times at most
Chain(ps, pid, n, k) ==
    IF k = 0 \/ n = NoneP \/ n \notin ps THEN {}
    ELSE LET p == pid[n] IN
         IF p = NoneP THEN {} ELSE {p} \cup Chain(ps, pid, p, k - 1)

\* the true ancestors of n (existing or dangling)
Ancestors(ps, pid, n) == Chain(ps, pid, n, MaxNodes + 1)

\* the true descendants of n
Subtree(ps, pid, n) == {m \in ps : n \in Ancestors(ps, pid, m)}

RECURSIVE Dist(_, _, _, _)
\* the number of parent steps from n up to its ancestor a
Dist(ps, pid, n, a) ==
    IF n = a \/ n \notin ps \/ pid[n] = NoneP THEN 0
    ELSE 1 + Dist(ps, pid, pid[n], a)

\* the node orders an ORDER BY level query can return (ties in any order)
LevelOrders(S, lv) ==
    {o \in [1..Cardinality(S) -> S] :
        /\ \A i, j \in 1..Cardinality(S) : i # j => o[i] # o[j]
        /\ \A i, j \in 1..Cardinality(S) : i < j => lv[o[i]] <= lv[o[j]]}

\* the nodes get_descendants selects; depth is <<>> (None) or <<k>>
descendants_selected(ps, tbl, n, include_self, depth) ==
    {d \in ps :
        /\ \E r \in tbl : /\ r.parent_id = n
                          /\ r.child_id = d
                          /\ (depth = <<>> \/ r.depth <= depth[1])
        /\ (include_self \/ d # n)}

\* _closure_update_links deleting the links without the filter on the child
closure_update_links_unfiltered(ps, tbl, lv, i, n) ==
    [raised |-> "NameError", closure |-> {}, level |-> lv]

\* _closure_update_links.  Lines 335-342 only read: the two parents, the
\* subtree by the closure rows (in level order) and the level difference.
\* Line 343 then evaluates F('level'), and the module binds no name F (its
\* imports are lines 29-37), so the call raises NameError before any level
\* or row is written; lines 344-347 (links.delete() and the
\* _closure_createlink loop) are not reached.
closure_update_links(ps, tbl, lv, i, n) ==
    LET new_parent == closure_parent(ps, i)
        old_parent == i.old_parent
        subtree_without_self ==
            LevelOrders(descendants_selected(ps, tbl, n, FALSE, <<>>), lv)
        new_level == IF new_parent # NoneP THEN lv[new_parent] ELSE 0
        old_level == IF old_parent # NoneP THEN lv[old_parent] ELSE 0
        leveldiff == new_level - old_level
    IN  [raised |-> "NameError", closure |-> tbl, level |-> lv]

\* closure_model_set_level (pre_save): the level the instance is given
set_level(lv, par) == IF par # NoneP THEN lv[par] + 1 ELSE 0

\* pre_save resolves the parent object; a missing one raises DoesNotExist
set_level_raises(ps, par) == par # NoneP /\ par \notin ps

RECURSIVE RebuildFrom(_, _, _, _, _, _)
\* rebuildtable's loop from position i of the order: the tables it can leave
RebuildFrom(v, pid, tbl, first, order, i) ==
    IF i > Len(order) THEN {tbl}
    ELSE LET n  == order[i]
             ts == createlink_added(v, tbl, n, pid[n])
         IN  UNION {RebuildFrom(v, pid, tbl \cup Numbered(ts, f, first),
                                RowId(first + Cardinality(ts)), order, i + 1) :
                        f \in Numberings(ts)}

\* rebuildtable: delete every row, then createlink per node by level
rebuildtable(v, ps, pid, lv, first) ==
    UNION {RebuildFrom(v, pid, {}, first, o, 1) : o \in LevelOrders(ps, lv)}

\* ------------------------------------------------------------------- Init
Init ==
    /\ pks = {}
    /\ parent_id = [n \in Pks |-> NoneP]
    /\ level = [n \in Pks |-> 0]
    /\ closure = {}
    /\ nextPk = 1
    /\ nextRowId = 1
    /\ inst = NoInst
    /\ vendor \in Vendors
    /\ raised = "none"
    /\ last = [op |-> "init", pk |-> NoneP]

\* ---------------------------------------------------------------- actions
\* Model(...): construct an instance; parent=p, or no parent given
New(p) ==
    /\ nextPk <= MaxNodes
    /\ p \in pks \cup {NoneP}
    /\ inst' = Instance(NoneP, p, Unset)
    /\ raised' = "none"
    /\ last' = [op |-> "new", pk |-> NoneP]
    /\ UNCHANGED <<pks, parent_id, level, closure, nextPk, nextRowId, vendor>>

\* Model.objects.get(pk=n): load an instance from its row
Get(n) ==
    /\ n \in pks
    /\ inst' = Instance(n, parent_id[n], Unset)
    /\ raised' = "none"
    /\ last' = [op |-> "get", pk |-> n]
    /\ UNCHANGED <<pks, parent_id, level, closure, nextPk, nextRowId, vendor>>

\* __setattr__ without the comparison of line 124: every first assignment
\* takes the copy of the old parent
SetParent_nocompare(p) ==
    /\ inst.live
    /\ p \in pks \cup {NoneP}
    /\ p # inst.pk \/ p = NoneP
    /\ inst' = [(IF ~closure_change_check(inst)
                   THEN closure_change_init(pks, inst)
                   ELSE inst)
                EXCEPT !.parent_id = p]
    /\ raised' = "none"
    /\ last' = [op |-> "setattr", pk |-> inst.pk]
    /\ UNCHANGED <<pks, parent_id, level, closure, nextPk, nextRowId, vendor>>

\* __setattr__ of the parent attribute (instance.parent = p)
SetParent(p) ==
    /\ inst.live
    /\ p \in pks \cup {NoneP}
    /\ p # inst.pk \/ p = NoneP
    /\ inst' = [(IF ~closure_change_check(inst) /\ closure_parent_pk(inst) # p
                   THEN closure_change_init(pks, inst)
                   ELSE inst)
                EXCEPT !.parent_id = p]
    /\ raised' = "none"
    /\ last' = [op |-> "setattr", pk |-> inst.pk]
    /\ UNCHANGED <<pks, parent_id, level, closure, nextPk, nextRowId, vendor>>

\* instance.save(): pre_save, the row write, post_save
Save ==
    /\ inst.live
    /\ LET par     == closure_parent_pk(inst)
           created == inst.pk = NoneP
           n       == IF created THEN nextPk ELSE inst.pk
       IN
       IF set_level_raises(pks, par)
         THEN /\ raised' = "DoesNotExist"
              /\ last' = [op |-> "save", pk |-> inst.pk]
              /\ UNCHANGED <<pks, parent_id, level, closure, nextPk,
                             nextRowId, inst, vendor>>
         ELSE
           \* the host keeps the pointers a forest
           /\ par \notin Subtree(pks, parent_id, n)
           /\ set_level(level, par) <= MaxLevel
           /\ pks' = pks \cup {n}
           /\ parent_id' = [parent_id EXCEPT ![n] = par]
           /\ nextPk' = IF created THEN nextPk + 1 ELSE nextPk
           /\ last' = [op |-> IF created THEN "insert" ELSE "update", pk |-> n]
           /\ UNCHANGED vendor
           /\ LET lv1 == [level EXCEPT ![n] = set_level(level, par)] IN
              IF closure_change_check(inst)
                THEN LET res == closure_update_links(pks', closure, lv1, inst, n) IN
                     /\ raised' = res.raised
                     /\ closure' = res.closure
                     /\ level' = res.level
                     \* delattr runs only when the update returned
                     /\ inst' = [inst EXCEPT
                                   !.pk = n,
                                   !.old_parent = IF res.raised = "none"
                                                    THEN Unset ELSE @]
                     /\ UNCHANGED nextRowId
                ELSE
                  /\ level' = lv1
                  /\ inst' = [inst EXCEPT !.pk = n]
                  /\ IF created
                       THEN IF createlink_raises(vendor, closure, n, par)
                              THEN /\ raised' = "IntegrityError"
                                   /\ UNCHANGED <<closure, nextRowId>>
                              ELSE LET ts == createlink_added(vendor, closure, n, par) IN
                                   /\ \E f \in Numberings(ts) :
                                        closure' = closure \cup Numbered(ts, f, nextRowId)
                                   /\ nextRowId' = RowId(nextRowId + Cardinality(ts))
                                   /\ raised' = "none"
                       ELSE /\ raised' = "none"
                            /\ UNCHANGED <<closure, nextRowId>>

\* a second caller runs _closure_createlink for the node just inserted
createlink_again(n) ==
    /\ last = [op |-> "insert", pk |-> n]
    /\ raised = "none"
    /\ n \in pks
    /\ IF createlink_raises(vendor, closure, n, parent_id[n])
         THEN /\ raised' = "IntegrityError"
              /\ UNCHANGED <<closure, nextRowId>>
         ELSE LET ts == createlink_added(vendor, closure, n, parent_id[n]) IN
              /\ \E f \in Numberings(ts) :
                   closure' = closure \cup Numbered(ts, f, nextRowId)
              /\ nextRowId' = RowId(nextRowId + Cardinality(ts))
              /\ raised' = "none"
    /\ last' = [op |-> "createlink_again", pk |-> n]
    /\ UNCHANGED <<pks, parent_id, level, nextPk, inst, vendor>>

\* instance.delete(): pre_delete per collected node, then the rows go;
\* pol is the on_delete of the host's parent field
Delete(pol) ==
    /\ inst.live
    /\ inst.pk \in pks
    /\ LET n       == inst.pk
           victims == IF pol = "CASCADE"
                        THEN {n} \cup Subtree(pks, parent_id, n)
                        ELSE {n}
           unlinked == {r \in closure : \A v \in victims :
                           r \in closure_deletelink(closure, v)}
       IN
       /\ pks' = pks \ victims
       \* the closure model's ForeignKeys cascade (no on_delete given)
       /\ closure' = {r \in unlinked : r.parent_id \notin victims}
       /\ parent_id' = [m \in Pks |-> IF m \in victims THEN NoneP ELSE parent_id[m]]
       /\ level' = [m \in Pks |-> IF m \in victims THEN 0 ELSE level[m]]
       /\ last' = [op |-> "delete", pk |-> n]
    /\ inst' = NoInst
    /\ raised' = "none"
    /\ UNCHANGED <<nextPk, nextRowId, vendor>>

\* Model.rebuildtable() with exclusive access
Rebuild ==
    /\ pks # {}
    /\ \E tbl \in rebuildtable(vendor, pks, parent_id, level, nextRowId) :
         /\ closure' = tbl
         /\ nextRowId' = RowId(nextRowId + Cardinality(tbl))
    /\ raised' = "none"
    /\ last' = [op |-> "rebuild", pk |-> NoneP]
    /\ UNCHANGED <<pks, parent_id, level, nextPk, inst, vendor>>

Next ==
    \/ \E p \in Pks \cup {NoneP} : New(p)
    \/ \E n \in Pks : Get(n)
    \/ \E p \in Pks \cup {NoneP} : SetParent(p)
    \/ Save
    \/ \E n \in Pks : createlink_again(n)
    \/ \E pol \in Policies : Delete(pol)
    \/ Rebuild

Spec == Init /\ [][Next]_vars

\* creations and reparentings only (no delete, no rebuild, no second caller)
NextCR ==
    \/ \E p \in Pks \cup {NoneP} : New(p)
    \/ \E n \in Pks : Get(n)
    \/ \E p \in Pks \cup {NoneP} : SetParent(p)
    \/ Save

SpecCR == Init /\ [][NextCR]_vars

\* creations and reparentings, then rebuildtable() run with exclusive access
NextRB ==
    \/ last.op # "rebuild" /\ NextCR
    \/ Rebuild

SpecRB == Init /\ [][NextRB]_vars

\* ---------------------------------------------------------------- queries
\* an instance of node n as a query loads it
Loaded(n) == Instance(n, parent_id[n], Unset)

\* is_descendant_of: the closure rows (other, self) whose own id is not self.pk
is_descendant_of(tbl, self, other, include_self) ==
    IF other = self
      THEN include_self
      ELSE \E r \in tbl :
              r.parent_id = other /\ r.child_id = self /\ r.id # self

\* is_ancestor_of
is_ancestor_of(tbl, self, other, include_self) ==
    is_descendant_of(tbl, other, self, include_self)

\* the nodes get_ancestors selects; depth is <<>> (None) or <<k>>
ancestors_selected(ps, tbl, i, include_self, depth) ==
    IF is_root_node(i)
      THEN IF include_self THEN {i.pk} \cap ps ELSE {}
      ELSE {a \in ps :
              /\ \E r \in tbl : /\ r.parent_id = a
                                /\ r.child_id = i.pk
                                /\ (depth = <<>> \/ r.depth <= depth[1])
              /\ (include_self \/ a # i.pk)}

\* get_ancestors: the sequences the query can return (ORDER BY level)
get_ancestors(ps, lv, tbl, i, include_self, depth) ==
    LevelOrders(ancestors_selected(ps, tbl, i, include_self, depth), lv)

\* ------------------------------------------------------------------ claims
\* the rows of tbl for the pair (a, n)
PairRows(tbl, a, n) == {r \in tbl : r.parent_id = a /\ r.child_id = n}

\* C1: after every committed creation, reparenting and deletion the closure
\* rows are the transitive closure of the parent pointers: one row (A, N, d)
\* for every stored node N and stored ancestor A at distance d, and no row of
\* positive depth for a pair that is not ancestor and descendant.
C1_ClosureIsTransitiveClosure ==
    /\ \A n \in pks : \A a \in Ancestors(pks, parent_id, n) \cap pks :
          /\ Cardinality(PairRows(closure, a, n)) = 1
          /\ \A r \in PairRows(closure, a, n) :
                r.depth = Dist(pks, parent_id, n, a)
    /\ \A r \in closure :
          r.depth > 0 => /\ r.child_id \in pks
                         /\ r.parent_id \in Ancestors(pks, parent_id, r.child_id)

\* C2: every stored node has exactly one self-link row (N, N, 0) and no
\* self-link row exists for a node that is not stored.
C2_SelfLink ==
    /\ \A n \in pks :
          Cardinality({r \in PairRows(closure, n, n) : r.depth = 0}) = 1
    /\ \A r \in closure : r.parent_id = r.child_id => r.child_id \in pks

RECURSIVE RootFrom(_, _, _, _)
\* the node without parent reached from n by parent pointers
RootFrom(ps, pid, n, k) ==
    IF k = 0 \/ pid[n] = NoneP \/ pid[n] \notin ps THEN n
    ELSE RootFrom(ps, pid, pid[n], k - 1)

RootOf(n) == RootFrom(pks, parent_id, n, MaxNodes)

\* C3: after creations and reparentings, level(N) is the number of closure
\* rows with child N other than the self-link, and is the depth of the row
\* (root(N), N, depth).
C3_LevelConsistency ==
    \A n \in pks :
        /\ level[n] = Cardinality({r \in closure :
                                      r.child_id = n /\ r.parent_id # n})
        /\ \E r \in PairRows(closure, RootOf(n), n) : r.depth = level[n]

\* the step is a save that ran the reparent update for a stored node
ReparentStep ==
    /\ inst.live
    /\ inst.pk \in pks
    /\ closure_change_check(inst)
    /\ last'.op = "update"
    /\ last'.pk = inst.pk
    /\ parent_id' # parent_id

\* C4: when node N is reparented, the level of N and of every descendant of
\* N changes by the same offset, so level(D) - level(N) is kept for every
\* descendant D.
C4_SameOffset ==
    [][ReparentStep =>
          \A d \in Subtree(pks, parent_id, inst.pk) :
              level'[d] - level'[inst.pk] = level[d] - level[inst.pk]]_vars

\* the rows of tbl whose child is in S, without their ids
RowsOf(tbl, S) == Triples({r \in tbl : r.child_id \in S})

\* the reparent update has just run for the node last.pk, a node that got
\* its links when it was created
Reparented ==
    /\ last.op = "update"
    /\ inst.live
    /\ inst.pk = last.pk
    /\ closure_change_check(inst) \/ raised = "NameError"
    /\ PairRows(closure, last.pk, last.pk) # {}

\* C5: after node N was moved to a new parent, the closure rows of N's
\* subtree are the rows a rebuild from scratch produces for the same parent
\* pointers.
C5_ReparentEqualsRebuild ==
    Reparented =>
        LET sub == {last.pk} \cup Subtree(pks, parent_id, last.pk) IN
        \E tbl \in rebuildtable(vendor, pks, parent_id, level, nextRowId) :
            RowsOf(closure, sub) = RowsOf(tbl, sub)

\* C6: a rebuild that directly follows a rebuild leaves the same row set.
C6_RebuildIdempotent ==
    [][(last.op = "rebuild" /\ last'.op = "rebuild") =>
          Triples(closure') = Triples(closure)]_vars

\* C7: a second createLink call for the node just inserted raises no error
\* and leaves the row set of the single call.
C7_ConcurrentCreateLink ==
    [][last'.op = "createlink_again" =>
          (raised' = "none" /\ Triples(closure') = Triples(closure))]_vars

\* C9: is_descendant_of(node, other, include_self) is true exactly when
\* other is node and include_self, or a row (other, node, d > 0) exists.
C9_IsDescendantOf ==
    \A n \in pks, o \in pks, inc \in BOOLEAN :
        is_descendant_of(closure, n, o, inc) <=>
            \/ (o = n /\ inc)
            \/ \E r \in PairRows(closure, o, n) : r.depth > 0

\* the depth arguments tried: None and 0..MaxNodes
Depths == {<<>>} \cup {<<k>> : k \in 0..MaxNodes}

\* C10: after creations and reparentings get_ancestors returns exactly the
\* nodes with a closure row (A, node, d), d within the depth given, node
\* itself only with include_self, and every returned ancestor precedes the
\* returned nodes that are its descendants.
C10_GetAncestors ==
    \A n \in {m \in pks : PairRows(closure, m, m) # {}},
       inc \in BOOLEAN, dp \in Depths :
        \A res \in get_ancestors(pks, level, closure, Loaded(n), inc, dp) :
            /\ {res[k] : k \in 1..Len(res)} =
                  {a \in pks :
                      /\ \E r \in PairRows(closure, a, n) :
                            dp = <<>> \/ r.depth <= dp[1]
                      /\ (inc \/ a # n)}
            /\ \A j, k \in 1..Len(res) :
                  j < k => \A r \in PairRows(closure, res[k], res[j]) :
                              r.depth = 0

\* the depth of the closure row (a, d) of tbl, the column a query orders by
RowDepth(tbl, a, d) == (CHOOSE r \in PairRows(tbl, a, d) : TRUE).depth

\* get_descendants: the sequences the query can return (ORDER BY the depth
\* of the closure row that joins the node to self)
get_descendants(ps, tbl, n, include_self, depth) ==
    LET S == descendants_selected(ps, tbl, n, include_self, depth) IN
    {o \in [1..Cardinality(S) -> S] :
        /\ \A j, k \in 1..Cardinality(S) : j # k => o[j] # o[k]
        /\ \A j, k \in 1..Cardinality(S) :
              j < k => RowDepth(tbl, n, o[j]) <= RowDepth(tbl, n, o[k])}

\* get_children of an instance without _cached_children
get_children(ps, tbl, n) == get_descendants(ps, tbl, n, FALSE, <<1>>)

\* get_root: the results the query can give; {} stands for the IndexError
\* of [0] on an empty queryset
get_root(ps, tbl, i) ==
    IF is_root_node(i)
      THEN {i.pk}
      ELSE LET S == ancestors_selected(ps, tbl, i, FALSE, <<>>) IN
           {a \in S : \A b \in S :
                RowDepth(tbl, b, i.pk) <= RowDepth(tbl, a, i.pk)}

\* the elements of a sequence
Elems(sq) == {sq[k] : k \in 1..Len(sq)}

\* C11: after creations and reparentings get_descendants returns exactly
\* the nodes with a closure row (node, D, d), d within the depth given, node
\* itself only with include_self, in ascending depth; get_children without
\* cache returns exactly the nodes whose parent_id is node.
C11_GetDescendants ==
    \A n \in {m \in pks : PairRows(closure, m, m) # {}} :
        /\ \A inc \in BOOLEAN, dp \in Depths :
              \A res \in get_descendants(pks, closure, n, inc, dp) :
                  /\ Elems(res) =
                        {d \in pks :
                            /\ \E r \in PairRows(closure, n, d) :
                                  dp = <<>> \/ r.depth <= dp[1]
                            /\ (inc \/ d # n)}
                  /\ \A j, k \in 1..Len(res) :
                        j < k => RowDepth(closure, n, res[j])
                                    <= RowDepth(closure, n, res[k])
        /\ \A res \in get_children(pks, closure, n) :
              Elems(res) = {d \in pks : parent_id[d] = n}

\* C12: after creations and reparentings get_root returns the node itself
\* when it has no parent, and otherwise the ancestor of maximum closure
\* depth, which is the parentless node its parent pointers lead to.
C12_GetRoot ==
    \A n \in {m \in pks : PairRows(closure, m, m) # {}} :
        get_root(pks, closure, Loaded(n)) = {RootOf(n)}

\* the step assigns the parent attribute of an instance whose tracker holds
\* no old parent
AssignUnobserved ==
    /\ last'.op = "setattr"
    /\ inst.live
    /\ inst'.pk = inst.pk
    /\ inst.old_parent = Unset

\* C13 as claimed: the tracker leaves Unobserved only when the assigned
\* parent differs from the one held and the node is stored; on an unsaved
\* instance it stays Unobserved.
C13_CaptureOnlyStored ==
    [][AssignUnobserved =>
          (inst'.old_parent # Unset =>
              (inst'.parent_id # inst.parent_id /\ inst.pk # NoneP))]_vars

\* C13 as amended: the tracker leaves Unobserved exactly when the assigned
\* parent differs from the one the instance holds, stored or not; assigning
\* the same value again leaves it Unobserved.
C13_CaptureOnChange ==
    [][AssignUnobserved =>
          (inst'.old_parent # Unset <=> inst'.parent_id # inst.parent_id)]_vars

\* an unsaved instance whose tracker took the old parent
C13_Witness ==
    /\ last.op = "setattr"
    /\ inst.live
    /\ inst.pk = NoneP
    /\ inst.old_parent # Unset

\* the step is a save whose post_save handler ran
AfterSaveStep ==
    /\ inst.live
    /\ last'.op \in {"insert", "update"}
    /\ last'.pk = (IF inst.pk = NoneP THEN nextPk ELSE inst.pk)

C15_DeleteLinkFrame ==
    \A n \in pks :
        LET after == closure_deletelink(closure, n) IN
        /\ after \subseteq closure
        /\ \A r \in closure : r \in after <=> r.child_id # n

\* a stored node with a row from an ancestor and a row to a descendant
C15_Witness ==
    \E n \in pks :
        /\ \E r \in closure : r.child_id = n /\ r.parent_id # n
        /\ \E r \in closure : r.parent_id = n /\ r.child_id # n
        /\ closure_deletelink(closure, n) # closure

\* the instance refers to a parent whose row does not exist
Dangling(i) == i.live /\ i.parent_id # NoneP /\ i.parent_id \notin pks

\* the step is a save of the instance (pre_save resolves the parent)
SaveAttempt == last'.op \in {"save", "insert", "update"} /\ last' # last

\* the step is an assignment that takes the copy of the old parent
CaptureStep ==
    /\ last'.op = "setattr"
    /\ inst.old_parent = Unset
    /\ inst'.parent_id # inst.parent_id

\* C16 as claimed: every operation that resolves a parent whose row does
\* not exist surfaces an error and does not go on as if there were no parent.
C16_MissingParentRaises ==
    [][(Dangling(inst) /\ (SaveAttempt \/ CaptureStep)) =>
          (raised' # "none" /\ inst'.old_parent = inst.old_parent)]_vars

\* C16 as amended: pre_save surfaces DoesNotExist and nothing is written
\* (so the reparent update is not reached); the capture of the old parent
\* takes a missing parent as None and raises nothing.
C16_MissingParent ==
    [][Dangling(inst) =>
          /\ SaveAttempt =>
                /\ raised' = "DoesNotExist"
                /\ UNCHANGED <<pks, parent_id, level, closure, inst>>
          /\ CaptureStep =>
                /\ raised' = "none"
                /\ inst'.old_parent = NoneP]_vars

\* the tracker took None from a parent reference whose row is gone
C16_Witness ==
    /\ last.op = "setattr"
    /\ inst.live
    /\ inst.pk \in pks
    /\ parent_id[inst.pk] # NoneP
    /\ parent_id[inst.pk] \notin pks
    /\ inst.old_parent = NoneP

\* C17: when the reparent update of a node that has its links ends, every
\* node of the moved subtree has a row from each of its ancestors at the
\* right depth (none missing) and no row from a node that is not its
\* ancestor (none stale).
C17_NoMissingOrStaleRow ==
    [][(ReparentStep /\ PairRows(closure, inst.pk, inst.pk) # {}) =>
          \A d \in {inst.pk} \cup Subtree(pks', parent_id', inst.pk) :
              \A a \in pks' \ {d} :
                  IF a \in Ancestors(pks', parent_id', d)
                    THEN \E r \in PairRows(closure', a, d) :
                            r.depth = Dist(pks', parent_id', d, a)
                    ELSE PairRows(closure', a, d) = {}]_vars

\* the transitive closure of the parent pointers, with the self-links
TransitiveClosure ==
    {Triple(a, n, Dist(pks, parent_id, n, a)) :
        <<a, n>> \in {pr \in pks \X pks :
                         pr[1] = pr[2] \/
                         pr[1] \in Ancestors(pks, parent_id, pr[2])}}

\* C18: after rebuildtable(), run with exclusive access in a state reached
\* by creations and reparentings, the closure rows are exactly the
\* transitive closure of the parent pointers.
C18_RebuildIsTransitiveClosure ==
    last.op = "rebuild" => Triples(closure) = TransitiveClosure

\* C19: while a stored node that has its links waits for its next save with
\* a changed parent, the old parent held by the tracker is the parent the
\* node has in the table, the one it had before the first of the changes.
C19_TrackerHoldsFirstParent ==
    (/\ last.op = "setattr"
     /\ inst.live
     /\ inst.pk \in pks
     /\ PairRows(closure, inst.pk, inst.pk) # {}
     /\ closure_change_check(inst))
    => inst.old_parent = parent_id[inst.pk]

\* the step ran _closure_createlink alone: an insert with the tracker
\* Unobserved, or the second caller
CreateLinkStep ==
    \/ last'.op = "insert" /\ inst.live /\ ~closure_change_check(inst)
    \/ last'.op = "createlink_again" /\ last.op = "insert"

\* C20: the reparent update of N changes no closure row whose child is
\* outside N's subtree and no level outside N's subtree; createlink(node)
\* only adds rows whose child is node and keeps every existing row as it is.
C20_Frame ==
    [][/\ ReparentStep =>
            LET sub == {inst.pk} \cup Subtree(pks, parent_id, inst.pk)
                                 \cup descendants_selected(pks, closure,
                                                           inst.pk, TRUE, <<>>)
            IN  /\ {r \in closure : r.child_id \notin sub} =
                   {r \in closure' : r.child_id \notin sub}
                /\ \A n \in pks \ sub : level'[n] = level[n]
       /\ CreateLinkStep =>
            /\ closure \subseteq closure'
            /\ \A r \in closure' \ closure : r.child_id = last'.pk]_vars

\* a reparent update has run while a node outside the moved subtree has an
\* ancestor row and a level above 0
C20_Witness ==
    /\ last.op = "update"
    /\ raised = "NameError"
    /\ inst.live
    /\ inst.pk = last.pk
    /\ \E m \in pks \ ({last.pk} \cup Subtree(pks, parent_id, last.pk)) :
          /\ level[m] > 0
          /\ \E r \in closure : r.child_id = m /\ r.depth > 0
====
